---- MODULE Spec2Model ----
(***************************************************************************)
(* Model of src/contents_download.py: the button handler of main(), which  *)
(* reads a worksheet, downloads every link whose status is "not started",  *)
(* zips the downloaded files, offers the zip, writes "done" back to the    *)
(* worksheet and removes its local files.                                  *)
(*                                                                         *)
(* The worksheet, the local file system and the clock are shared by the    *)
(* runs (one run per button press / session) and by other editors of the   *)
(* worksheet.  Every call to an external service is a step of its own, so  *)
(* the runs and the other editors interleave between the calls.            *)
(***************************************************************************)
EXTENDS Naturals, Integers, Sequences, FiniteSets, TLC

\* ------------------------------------------------------------------ bounds
MaxRows == 3      \* data rows of the worksheet (the header row is extra)
MaxExt  == 1      \* edits other actors make to the worksheet

\* --------------------------------------------------------------- constants
\* The Korean literals of the source, transliterated to ASCII:
LinkCol   == "link"          \* '링크'      (line 95, 112, 139)
StatusCol == "status"        \* '진행상태'  (line 95, 100, 140)
PENDING   == "not_started"   \* '미진행'    (line 100)
DONE      == "done"          \* '진행완료'  (line 146)
MemoCol   == "memo"          \* any other column of the sheet

Runs   == {1, 2}             \* two button presses (sessions)
Other(r) == 3 - r
\* The URLs of the link column are numbered.  The initial worksheet holds a
\* different URL in every row; a row another actor adds repeats the URL of
\* the first row.
Links  == 1..MaxRows
ExtLinks == {1}              \* the URL another actor puts into a new row
LinkOfRow(i) == i
TabName == "tab1"            \* the one tab the spreadsheet has
TabInputs == {"", "tab1", "nosuch"}   \* what the user may type (line 63)

\* Header rows of the worksheet: two with both required columns (in different
\* positions), one without the status column, one without the link column.
Headers == { <<LinkCol, StatusCol>>, <<StatusCol, MemoCol, LinkCol>>,
             <<MemoCol, LinkCol>>, <<StatusCol>> }

\* ----------------------------------------------------------------- helpers
Range(s) == { s[i] : i \in 1..Len(s) }

\* Python's list.index(x): 0-based position of the first x (x is in the list).
ListIndex(s, x) == (CHOOSE i \in 1..Len(s) : s[i] = x /\ \A j \in 1..(i-1) : s[j] # x) - 1

\* The cells of a data row under header h.
RowCells(h, link, status) ==
  [k \in 1..Len(h) |-> IF h[k] = LinkCol THEN link
                       ELSE IF h[k] = StatusCol THEN status ELSE 0]

\* yt-dlp's outtmpl '%(title)s.%(ext)s' with merge_output_format mp4: the
\* file a link is saved as (one title per URL).
FileOf(link) == << "title", link, "mp4" >>

VARIABLES
  header,          \* row 1 of the worksheet: the column names
  rows,            \* the data rows (sheet rows 2, 3, ...), each a tuple of cells
  now,             \* the clock: the second of the latest time.time() call
  dirs,            \* local directories: timestamp |-> set of file names
  zips,            \* local zip files: timestamp |-> set of entry names
  pc,              \* per run: where main() stands
  outcome,         \* per run: how main() ended
  df_mijinhaeng,   \* per run: the filtered frame, a sequence of [index, link]
  timestamp,       \* per run: int(time.time()) of line 107
  status_col_idx,  \* per run: line 140
  dl,              \* per run: links ydl.download has retrieved
  upd,             \* per run: update_cell calls completed
  sheet_tab,       \* per run: the tab name typed in (line 63)
  \* history:
  sheet0,          \* per run: the worksheet as get_all_records saw it
  wlog,            \* per run: the cells update_cell wrote, with the value
  archive,         \* per run: the entries of the zip create_zip_file wrote
  steps,           \* per run: which steps were carried out
  prior,           \* per run: outcome of the other run if it had ended at the start
  extCount,        \* the number of edits other actors have made
  rows0            \* the data rows of the initial state

vars == << header, rows, now, dirs, zips, pc, outcome, df_mijinhaeng, timestamp,
           status_col_idx, dl, upd, sheet_tab, sheet0, wlog, archive, steps, prior,
           extCount, rows0 >>

sheetVars == << header, rows >>
fsVars    == << dirs, zips >>

Init ==
  /\ header \in Headers
  /\ \E n \in 0..MaxRows :
       \E ss \in [1..n -> {PENDING, DONE}] :
         rows = [i \in 1..n |-> RowCells(header, LinkOfRow(i), ss[i])]
  /\ rows0 = rows
  /\ now = 0
  /\ dirs = << >>
  /\ zips = << >>
  /\ pc = [r \in Runs |-> "idle"]
  /\ outcome = [r \in Runs |-> "none"]
  /\ df_mijinhaeng = [r \in Runs |-> << >>]
  /\ timestamp = [r \in Runs |-> 0]
  /\ status_col_idx = [r \in Runs |-> 0]
  /\ dl = [r \in Runs |-> 0]
  /\ upd = [r \in Runs |-> 0]
  /\ sheet_tab = [r \in Runs |-> ""]
  /\ archive = [r \in Runs |-> {}]
  /\ sheet0 = [r \in Runs |-> [header |-> << >>, rows |-> << >>]]
  /\ wlog = [r \in Runs |-> {}]
  /\ steps = [r \in Runs |-> {}]
  /\ prior = [r \in Runs |-> "none"]
  /\ extCount = 0

\* ------------------------------------------------- gspread and pandas calls
\* worksheet.get_all_records(): one dict per data row, keyed by the header.
GetAllRecords(h, rs) ==
  [i \in 1..Len(rs) |-> [c \in Range(h) |-> rs[i][ListIndex(h, c) + 1]]]

\* pd.DataFrame(data).columns
Columns(data) == UNION { DOMAIN data[i] : i \in 1..Len(data) }

\* Line 95: both required columns exist.
HasColumnsNoStatus(cols) == LinkCol \in cols
HasColumns(cols) == LinkCol \in cols /\ StatusCol \in cols

\* Line 100: does the record pass the filter df['status'] == PENDING ?
IsMijinhaengAny(rec) == TRUE
IsMijinhaeng(rec) == StatusCol \in DOMAIN rec /\ rec[StatusCol] = PENDING

\* Line 100: df[df['status'] == PENDING].copy(): the rows that pass, in row
\* order, each with its 0-based index in df and its link.
RECURSIVE Filter(_, _)
Filter(data, i) ==
  IF i > Len(data) THEN << >>
  ELSE IF IsMijinhaeng(data[i])
       THEN << [index |-> i - 1, link |-> data[i][LinkCol]] >> \o Filter(data, i + 1)
       ELSE Filter(data, i + 1)

\* Line 112: df_mijinhaeng['link'].tolist()
VideoLinks(r) == [k \in 1..Len(df_mijinhaeng[r]) |-> df_mijinhaeng[r][k].link]

\* Line 146: the sheet row of a df index (row 1 is the header).
SheetRowOffByOne(df_index) == df_index + 1
SheetRow(df_index) == df_index + 2

\* Line 140: the 1-based column of the status header.
StatusColIdxLink(header_row) == ListIndex(header_row, LinkCol) + 1
StatusColIdx(header_row) == ListIndex(header_row, StatusCol) + 1

\* Line 146: the value update_cell writes.
DoneValuePending == PENDING
DoneValue == DONE

\* Line 144: the df indexes the write-back loop visits.
CommitIndexFresh(r) ==
  LET f == Filter(GetAllRecords(header, rows), 1) IN [k \in 1..Len(f) |-> f[k].index]
CommitIndexReversed(r) ==
  [k \in 1..Len(df_mijinhaeng[r]) |->
     df_mijinhaeng[r][Len(df_mijinhaeng[r]) + 1 - k].index]
CommitIndex(r) == [k \in 1..Len(df_mijinhaeng[r]) |-> df_mijinhaeng[r][k].index]

\* Lines 118-121: where main() goes when ydl.download raised.
AfterDownloadErrorGoOn == "zip"
AfterDownloadError == "end"

\* worksheet.update_cell(row, col, value) on the sheet <<h, rs>>: row 1 is the
\* header, row i + 1 is data row i; a cell below the last row is created, the
\* rows in between being blank.
Blank(h) == [k \in 1..Len(h) |-> ""]
SheetAfterUpdate(h, rs, row, col, value) ==
  IF col \notin 1..Len(h) THEN [header |-> h, rows |-> rs]
  ELSE IF row = 1 THEN [header |-> [h EXCEPT ![col] = value], rows |-> rs]
  ELSE LET padded == [i \in 1..(IF row - 1 > Len(rs) THEN row - 1 ELSE Len(rs)) |->
                        IF i <= Len(rs) THEN rs[i] ELSE Blank(h)]
       IN [header |-> h, rows |-> [padded EXCEPT ![row - 1][col] = value]]

\* Lines 79-83: spreadsheet.worksheet(tab) finds the tab.
TabResolvesAlways(tab) == TRUE
TabResolves(tab) == tab = TabName

\* Line 125: where main() goes when create_zip_file raised (nothing catches it).
AfterZipErrorGoOn == "header"
AfterZipError == "end"

\* Lines 151-157: how main() ends after the clean-up, given how far the
\* clean-up got (3: everything was removed); the bare except swallows a failure.
CleanupOutcomeRaise(stage) == IF stage = 3 THEN "done" ELSE "crash_cleanup"
CleanupOutcome(stage) == "done"

Finish(r, how) ==
  /\ pc' = [pc EXCEPT ![r] = "end"]
  /\ outcome' = [outcome EXCEPT ![r] = how]

Goto(r, where) ==
  /\ pc' = [pc EXCEPT ![r] = where]
  /\ UNCHANGED outcome

Did(r, step) == steps' = [steps EXCEPT ![r] = @ \cup {step}]

\* ------------------------------------------------------------------ main()
\* Lines 65-83: the button is pressed; the tab name is checked, the
\* spreadsheet is opened and the tab is looked up.
Open(r) ==
  /\ pc[r] = "idle"
  /\ r = 1 \/ pc[1] # "idle"          \* the runs are numbered in start order
  /\ \E tab \in TabInputs, connected \in BOOLEAN :
       /\ sheet_tab' = [sheet_tab EXCEPT ![r] = tab]
       /\ IF tab = "" THEN Finish(r, "no_input")
          ELSE IF ~connected THEN Finish(r, "conn_error")
          ELSE IF ~TabResolves(tab) THEN Finish(r, "not_found")
          ELSE Goto(r, "read")
  /\ prior' = [prior EXCEPT ![r] = IF pc[Other(r)] = "end" THEN outcome[Other(r)] ELSE "none"]
  /\ Did(r, "open")
  /\ UNCHANGED << archive, sheetVars, fsVars, now, df_mijinhaeng, timestamp, status_col_idx,
                  dl, upd, sheet0, wlog, extCount, rows0 >>

\* Lines 85-104: the one read of the worksheet, the checks and the filter.
GetRecords(r) ==
  /\ pc[r] = "read"
  /\ \E ok \in BOOLEAN :
       IF ~ok
       THEN /\ Finish(r, "crash_read")
            /\ UNCHANGED << df_mijinhaeng, sheet0, steps >>
       ELSE LET data == GetAllRecords(header, rows) IN
            /\ sheet0' = [sheet0 EXCEPT ![r] = [header |-> header, rows |-> rows]]
            /\ Did(r, "read")
            /\ IF data = << >>
               THEN Finish(r, "no_data") /\ UNCHANGED df_mijinhaeng
               ELSE IF ~HasColumns(Columns(data))
               THEN Finish(r, "schema_error") /\ UNCHANGED df_mijinhaeng
               ELSE /\ df_mijinhaeng' = [df_mijinhaeng EXCEPT ![r] = Filter(data, 1)]
                    /\ IF df_mijinhaeng'[r] = << >>
                       THEN Finish(r, "nothing_to_do")
                       ELSE Goto(r, "mkdir")
  /\ UNCHANGED << sheet_tab, archive, sheetVars, fsVars, now, timestamp, status_col_idx, dl, upd, wlog,
                  prior, extCount, rows0 >>

\* Lines 106-109: the run's directory, named after the clock's second;
\* os.makedirs(exist_ok=True) accepts a directory that is already there.
\* Only whether two runs read the same second matters: seconds are counted
\* from the one in which the first directory is made, and a later call of
\* time.time() returns the second of the latest call or the one after it.
MakeDir(r) ==
  /\ pc[r] = "mkdir"
  /\ \E t \in IF \A q \in Runs : "mkdir" \notin steps[q] THEN {0} ELSE {now, now + 1} :
       /\ now' = t
       /\ timestamp' = [timestamp EXCEPT ![r] = t]
       /\ dirs' = IF t \in DOMAIN dirs THEN dirs ELSE (t :> {}) @@ dirs
  /\ Goto(r, "download")
  /\ Did(r, "mkdir")
  /\ UNCHANGED << sheet_tab, archive, sheetVars, zips, df_mijinhaeng, status_col_idx, dl, upd, sheet0,
                  wlog, prior, extCount, rows0 >>

\* Lines 31-46, 115-121: ydl.download(video_links) takes the links in order;
\* 'ignoreerrors' is not set, so the first link that fails raises
\* DownloadError and the links after it are not tried.  The call retrieves
\* the first n links; when n is not all of them, link n+1 failed.
DownloadVideos(r) ==
  /\ pc[r] = "download"
  /\ LET t     == timestamp[r]
         links == VideoLinks(r)
         old   == IF t \in DOMAIN dirs THEN dirs[t] ELSE {}
     IN \E n \in 0..Len(links) :
          /\ dl' = [dl EXCEPT ![r] = n]
          /\ dirs' = IF n = 0 THEN dirs
                     ELSE (t :> (old \cup { FileOf(links[k]) : k \in 1..n })) @@ dirs
          /\ IF n = Len(links)
             THEN Goto(r, "zip") /\ Did(r, "download")
             ELSE /\ steps' = [steps EXCEPT ![r] = @ \cup {"download", "download_failed"}]
                  /\ IF AfterDownloadError = "end"
                     THEN Finish(r, "download_error")
                     ELSE Goto(r, AfterDownloadError)
  /\ UNCHANGED << sheet_tab, archive, sheetVars, zips, now, df_mijinhaeng, timestamp, status_col_idx, upd,
                  sheet0, wlog, prior, extCount, rows0 >>

\* Lines 48-57, 123-125: every file found in the directory goes into
\* videos_<timestamp>.zip; an exception is not caught.
CreateZip(r) ==
  /\ pc[r] = "zip"
  /\ LET t     == timestamp[r]
         files == IF t \in DOMAIN dirs THEN dirs[t] ELSE {}
     IN \E ok \in BOOLEAN :
          IF ok
          THEN /\ zips' = IF t \in DOMAIN zips THEN [zips EXCEPT ![t] = files]
                          ELSE (t :> files) @@ zips
               /\ archive' = [archive EXCEPT ![r] = files]
               /\ Goto(r, "deliver")
               /\ Did(r, "zip")
          ELSE /\ zips' \in { zips, IF t \in DOMAIN zips THEN [zips EXCEPT ![t] = {}]
                                    ELSE (t :> {}) @@ zips }
               /\ IF AfterZipError = "end"
                  THEN Finish(r, "crash_zip")
                  ELSE Goto(r, AfterZipError)
               /\ Did(r, "zip_failed")
               /\ UNCHANGED archive
  /\ UNCHANGED << sheet_tab, sheetVars, dirs, now, df_mijinhaeng, timestamp, status_col_idx, dl,
                  upd, sheet0, wlog, prior, extCount, rows0 >>

\* Lines 127-134: the zip is opened and handed to st.download_button.
Deliver(r) ==
  /\ pc[r] = "deliver"
  /\ \E ok \in BOOLEAN :
       IF ok /\ timestamp[r] \in DOMAIN zips
       THEN Goto(r, "header") /\ Did(r, "deliver")
       ELSE Finish(r, "crash_deliver") /\ UNCHANGED steps
  /\ UNCHANGED << sheet_tab, archive, sheetVars, fsVars, now, df_mijinhaeng, timestamp, status_col_idx, dl,
                  upd, sheet0, wlog, prior, extCount, rows0 >>

\* Lines 138-140: the header row is read again and the columns are located.
ReadHeader(r) ==
  /\ pc[r] = "header"
  /\ \E ok \in BOOLEAN :
       IF ok /\ LinkCol \in Range(header) /\ StatusCol \in Range(header)
       THEN /\ status_col_idx' = [status_col_idx EXCEPT ![r] = StatusColIdx(header)]
            /\ Goto(r, "update")
       ELSE /\ Finish(r, "crash_header")
            /\ UNCHANGED status_col_idx
  /\ UNCHANGED << sheet_tab, archive, sheetVars, fsVars, now, df_mijinhaeng, timestamp, dl, upd, sheet0,
                  wlog, steps, prior, extCount, rows0 >>

\* Lines 144-146: one update_cell call of the loop; an exception is not caught.
UpdateCell(r) ==
  /\ pc[r] = "update"
  /\ upd[r] < Len(CommitIndex(r))
  /\ LET k   == upd[r] + 1
         row == SheetRow(CommitIndex(r)[k])
         col == status_col_idx[r]
     IN \E ok \in BOOLEAN :
          IF ok
          THEN /\ header' = SheetAfterUpdate(header, rows, row, col, DoneValue).header
               /\ rows' = SheetAfterUpdate(header, rows, row, col, DoneValue).rows
               /\ wlog' = [wlog EXCEPT ![r] = @ \cup {[row |-> row, col |-> col, new |-> DoneValue]}]
               /\ upd' = [upd EXCEPT ![r] = k]
               /\ Goto(r, "update")
          ELSE /\ Finish(r, "crash_update")
               /\ UNCHANGED << header, rows, wlog, upd >>
  /\ UNCHANGED << sheet_tab, archive, fsVars, now, df_mijinhaeng, timestamp, status_col_idx, dl,
                  sheet0, steps, prior, extCount, rows0 >>

\* Lines 148-157: after the loop, the zip, the files and the directory are
\* removed inside try/except-pass: the first failure ends the clean-up.
Cleanup(r) ==
  /\ pc[r] = "update"
  /\ upd[r] = Len(CommitIndex(r))
  /\ LET t == timestamp[r]
         files == IF t \in DOMAIN dirs THEN dirs[t] ELSE {}
         noZip == [u \in DOMAIN zips \ {t} |-> zips[u]]
         noDir == [u \in DOMAIN dirs \ {t} |-> dirs[u]]
     IN \E stage \in 0..3 :
          \* 0: os.remove(zip) failed; 1: a file could not be listed or removed;
          \* 2: os.rmdir failed; 3: everything was removed
          /\ stage >= 1 => t \in DOMAIN zips
          /\ stage >= 2 => t \in DOMAIN dirs
          /\ zips' = IF stage >= 1 THEN noZip ELSE zips
          /\ \/ stage <= 0 /\ dirs' = dirs
             \/ stage = 1 /\ t \in DOMAIN dirs
                          /\ \E left \in SUBSET files :
                               /\ left # {}
                               /\ dirs' = [dirs EXCEPT ![t] = left]
             \/ stage = 1 /\ t \notin DOMAIN dirs /\ dirs' = dirs
             \/ stage = 2 /\ dirs' = [dirs EXCEPT ![t] = {}]
             \/ stage = 3 /\ dirs' = noDir
          /\ Finish(r, CleanupOutcome(stage))
          /\ Did(r, "cleanup")
  /\ UNCHANGED << sheet_tab, archive, sheetVars, now, df_mijinhaeng, timestamp, status_col_idx, dl, upd,
                  sheet0, wlog, prior, extCount, rows0 >>

\* ------------------------------------------------------------ other actors
\* Other people edit the worksheet at any time.  An edit commutes with every
\* step of a run that does not touch the worksheet, and an edit made before
\* the first read is a different initial worksheet, so the edits are taken
\* once the first run has read, right before a run reads or writes a cell.
Running ==
  /\ "read" \in steps[1]
  /\ \E r \in Runs : pc[r] \in {"read", "update"}

\* Somebody appends a not-started row at the end of the worksheet.
ExtAppendRow ==
  /\ Running
  /\ extCount < MaxExt
  /\ Len(rows) < MaxRows
  /\ StatusCol \in Range(header)
  /\ \E l \in ExtLinks :
       rows' = Append(rows, RowCells(header, l, PENDING))
  /\ extCount' = extCount + 1
  /\ UNCHANGED << sheet_tab, archive, header, fsVars, now, pc, outcome, df_mijinhaeng, timestamp,
                  status_col_idx, dl, upd, sheet0, wlog, steps, prior, rows0 >>

\* Somebody sets the status of a done row back to not started.
ExtSetPending ==
  /\ Running
  /\ extCount < MaxExt
  /\ StatusCol \in Range(header)
  /\ \E i \in 1..Len(rows), c \in 1..Len(header) :
       /\ header[c] = StatusCol
       /\ rows[i][c] = DONE
       /\ rows' = [rows EXCEPT ![i][c] = PENDING]
       /\ extCount' = extCount + 1
  /\ UNCHANGED << sheet_tab, archive, header, fsVars, now, pc, outcome, df_mijinhaeng, timestamp,
                  status_col_idx, dl, upd, sheet0, wlog, steps, prior, rows0 >>

Next ==
  \/ \E r \in Runs : Open(r)
  \/ \E r \in Runs : GetRecords(r)
  \/ \E r \in Runs : MakeDir(r)
  \/ \E r \in Runs : DownloadVideos(r)
  \/ \E r \in Runs : CreateZip(r)
  \/ \E r \in Runs : Deliver(r)
  \/ \E r \in Runs : ReadHeader(r)
  \/ \E r \in Runs : UpdateCell(r)
  \/ \E r \in Runs : Cleanup(r)
  \/ ExtAppendRow
  \/ ExtSetPending

Spec == Init /\ [][Next]_vars

TypeOK ==
  /\ \A r \in Runs : pc[r] \in {"idle", "read", "mkdir", "download", "zip", "deliver",
                                "header", "update", "end"}
  /\ \A i \in 1..Len(rows) : Len(rows[i]) = Len(header)

\* ------------------------------------------------------ what a run has done
Ended(r) == pc[r] = "end"
HasRead(r) == "read" \in steps[r]

\* The column of header h that is named as the status column.
StatusColumn(h) == CHOOSE c \in 1..Len(h) : h[c] = StatusCol

\* The status get_all_records saw in data row i of run r's read ("" when the
\* worksheet had no status column).
StatusAtRead(r, i) ==
  LET h == sheet0[r].header
  IN IF StatusCol \in Range(h) THEN sheet0[r].rows[i][StatusColumn(h)] ELSE ""

\* The sheet rows (header = row 1) that were PENDING at run r's read.
PendingAtRead(r) ==
  LET h == sheet0[r].header
      c == StatusColumn(h)
  IN IF StatusCol \in Range(h)
     THEN { i + 1 : i \in { j \in 1..Len(sheet0[r].rows) : sheet0[r].rows[j][c] = PENDING } }
     ELSE {}

\* The sheet rows whose link run r retrieved without error.
RetrievedRows(r) == { df_mijinhaeng[r][k].index + 2 : k \in 1..dl[r] }

\* The sheet rows whose status cell run r set to DONE.
MarkedDone(r) ==
  { w.row : w \in { v \in wlog[r] : v.new = DONE /\ v.col \in 1..Len(sheet0[r].header)
                                    /\ sheet0[r].header[v.col] = StatusCol } }

\* The sheet rows run r wrote to, whatever the cell.
WrittenRows(r) == { w.row : w \in wlog[r] }

SchemaAtRead(r) ==
  LinkCol \in Range(sheet0[r].header) /\ StatusCol \in Range(sheet0[r].header)

\* Run r did nothing beyond reading the worksheet.
NoEffect(r) ==
  /\ dl[r] = 0
  /\ steps[r] \cap {"mkdir", "download", "zip", "deliver", "cleanup"} = {}
  /\ wlog[r] = {}

\* ------------------------------------------------------------------ claims

\* C1 (as claimed): when a run ends, the rows it marked DONE are exactly the
\* rows of its PENDING snapshot whose link it retrieved without error.  Only
\* the runs that ended in the retrieval step, in the write-back loop or
\* normally are looked at.
C1_DoneIffRetrieved ==
  \A r \in Runs :
    (Ended(r) /\ outcome[r] \in {"download_error", "crash_update", "done"})
      => MarkedDone(r) = RetrievedRows(r)

\* C2 (as claimed): when some but not all links of the snapshot fail, the run
\* still reaches the archive and the write-back, the archive holds one file
\* per retrieved link and exactly the retrieved rows become DONE.
C2_PartialFailureCompletes ==
  \A r \in Runs :
    (Ended(r) /\ "download_failed" \in steps[r] /\ dl[r] > 0)
      => /\ {"zip", "cleanup"} \subseteq steps[r]
         /\ outcome[r] = "done"
         /\ MarkedDone(r) = RetrievedRows(r)

\* C3: when the first link fails (so no link of the snapshot is retrieved),
\* the run ends in the download-error outcome, has written no cell, has
\* built no archive, and no archive file of its name exists unless the other
\* run made one under the same timestamp; with nobody else writing, the
\* worksheet is as it was read.
C3_TotalFailure ==
  \A r \in Runs :
    (Ended(r) /\ "download_failed" \in steps[r] /\ dl[r] = 0)
      => /\ outcome[r] = "download_error"
         /\ wlog[r] = {}
         /\ "zip" \notin steps[r] /\ "deliver" \notin steps[r]
         /\ ("mkdir" \notin steps[Other(r)] \/ timestamp[Other(r)] # timestamp[r])
              => timestamp[r] \notin DOMAIN zips
         /\ (extCount = 0 /\ wlog[Other(r)] = {})
              => (rows = sheet0[r].rows /\ header = sheet0[r].header)

C3_Witness ==
  \E r \in Runs :
    /\ Ended(r) /\ "download_failed" \in steps[r] /\ dl[r] = 0
    /\ Len(df_mijinhaeng[r]) >= 2
    /\ outcome[r] = "download_error"

\* C4: when run 1 ended normally (all links retrieved, all cells written)
\* before run 2 started and nobody else edited the worksheet, run 2's read
\* sees no PENDING row, run 2 ends with "nothing to do" having retrieved and
\* written nothing, and the worksheet is as run 1 left it.
C4_Idempotence ==
  (prior[2] = "done" /\ extCount = 0 /\ HasRead(2))
    => /\ PendingAtRead(2) = {}
       /\ Ended(2) /\ outcome[2] = "nothing_to_do"
       /\ NoEffect(2)
       /\ rows = sheet0[2].rows /\ header = sheet0[2].header
       /\ \A i \in PendingAtRead(1) : StatusAtRead(2, i - 1) = DONE

C4_Witness ==
  /\ prior[2] = "done" /\ extCount = 0 /\ HasRead(2)
  /\ Cardinality(PendingAtRead(1)) >= 2
  /\ outcome[2] = "nothing_to_do"

\* C5 (as claimed): whenever the worksheet read holds no row with status
\* PENDING, the run ends without error ("no data" or "nothing to do") and
\* has retrieved, written and created nothing.
C5_EmptyInputAsClaimed ==
  \A r \in Runs :
    (HasRead(r) /\ PendingAtRead(r) = {})
      => (outcome[r] \in {"no_data", "nothing_to_do"} /\ NoEffect(r))

\* C5 (amended): whenever the worksheet read has no data row, or has both
\* required columns and no row with status PENDING, the run ends without
\* error ("no data" or "nothing to do") and has retrieved, written and
\* created nothing.
C5_EmptyInput ==
  \A r \in Runs :
    (HasRead(r) /\ (sheet0[r].rows = << >> \/ SchemaAtRead(r))
       /\ PendingAtRead(r) = {})
      => /\ Ended(r)
         /\ outcome[r] = (IF sheet0[r].rows = << >> THEN "no_data" ELSE "nothing_to_do")
         /\ NoEffect(r)

C5_Witness ==
  \E r \in Runs :
    /\ HasRead(r) /\ PendingAtRead(r) = {} /\ SchemaAtRead(r)
    /\ Len(sheet0[r].rows) >= 2
    /\ outcome[r] = "nothing_to_do"

\* C6 (as claimed): whenever the header read lacks the status or the link
\* column, with any number of data rows, the run ends in the schema error,
\* before any retrieval and without a write.
C6_MissingSchemaAsClaimed ==
  \A r \in Runs :
    (HasRead(r) /\ ~SchemaAtRead(r))
      => (outcome[r] = "schema_error" /\ NoEffect(r))

\* C6 (amended): whenever the worksheet read has at least one data row and
\* its header lacks the status or the link column, the run ends in the
\* schema error, before any retrieval and without a write.
C6_MissingSchema ==
  \A r \in Runs :
    (HasRead(r) /\ ~SchemaAtRead(r) /\ Len(sheet0[r].rows) >= 1)
      => (Ended(r) /\ outcome[r] = "schema_error" /\ NoEffect(r))

C6_Witness ==
  \E r \in Runs :
    /\ HasRead(r) /\ StatusCol \notin Range(sheet0[r].header)
    /\ Len(sheet0[r].rows) >= 1
    /\ outcome[r] = "schema_error"

\* C7: every cell a run writes is in the column whose header is the status
\* name and in the sheet row (0-based position among the data rows) + 2 of a
\* row that was PENDING at the read; once the loop is through, these are all
\* such rows.  With the rows (not started, done, not started) exactly sheet
\* rows 2 and 4 are written and row 3 is not.
C7_RowAddressing ==
  \A r \in Runs :
    (wlog[r] # {} \/ outcome[r] = "done") =>
    LET h == sheet0[r].header
        n == Len(sheet0[r].rows)
        c == IF StatusCol \in Range(h) THEN StatusColumn(h) ELSE 0
        pending(pos) == c # 0 /\ sheet0[r].rows[pos + 1][c] = PENDING
        W == WrittenRows(r)
    IN /\ \A w \in wlog[r] :
            /\ w.col \in 1..Len(h)
            /\ h[w.col] = StatusCol
            /\ w.row - 2 \in 0..(n - 1) /\ pending(w.row - 2)
       /\ outcome[r] = "done"
            => W = { pos + 2 : pos \in { q \in 0..(n - 1) : pending(q) } }
       /\ (outcome[r] = "done" /\ n = 3
             /\ pending(0) /\ sheet0[r].rows[2][c] = DONE /\ pending(2))
            => W = {2, 4}

C7_Witness ==
  \E r \in Runs :
    /\ outcome[r] = "done" /\ Len(sheet0[r].rows) = 3
    /\ StatusAtRead(r, 1) = PENDING /\ StatusAtRead(r, 2) = DONE
    /\ StatusAtRead(r, 3) = PENDING
    /\ WrittenRows(r) = {2, 4}
    /\ extCount = 0 /\ pc[Other(r)] = "idle"
    /\ \A i \in 1..3 : StatusAtRead(r, i) # "" /\ rows[i] = [sheet0[r].rows[i] EXCEPT
                          ![StatusColumn(header)] = DONE]

\* C8: the rows a run retrieves and the rows it writes are among the rows
\* that were PENDING at its one read; a row that was added after the read,
\* or was not PENDING at the read, is neither retrieved nor written.
C8_SnapshotStability ==
  \A r \in Runs :
    (dl[r] > 0 \/ wlog[r] # {}) =>
    LET P == PendingAtRead(r)
        R == RetrievedRows(r)
        W == WrittenRows(r)
        h == sheet0[r].header
        c == IF StatusCol \in Range(h) THEN StatusColumn(h) ELSE 0
    IN /\ R \subseteq P
       /\ W \subseteq P
       /\ \A row \in R \cup W :
            /\ row <= Len(sheet0[r].rows) + 1
            /\ c # 0 /\ sheet0[r].rows[row - 1][c] = PENDING

C8_Witness ==
  \E r \in Runs :
    /\ outcome[r] = "done"
    /\ Len(rows) > Len(sheet0[r].rows)
    /\ RetrievedRows(r) # {} /\ WrittenRows(r) = RetrievedRows(r)
    /\ rows[Len(rows)][StatusColumn(header)] = PENDING

\* C9: a run writes only DONE, only into the status cell of a row that was
\* PENDING at its read, and never alters the header; with no other actor
\* editing, every cell that differs from the initial worksheet is a status
\* cell of a snapshot row that went from PENDING to DONE.
C9_Frame ==
  /\ \A r \in Runs :
       /\ wlog[r] # {} =>
            LET P == PendingAtRead(r)
                h == sheet0[r].header
            IN \A w \in wlog[r] :
                 /\ w.new = DONE
                 /\ w.col \in 1..Len(h)
                 /\ h[w.col] = StatusCol
                 /\ w.row \in P
       /\ HasRead(r) => header = sheet0[r].header
  /\ (extCount = 0 /\ rows # rows0) =>
       /\ Len(rows) = Len(rows0)
       /\ \A i \in 1..Len(rows) : \A c \in 1..Len(header) :
            rows[i][c] # rows0[i][c] =>
              /\ header[c] = StatusCol
              /\ rows0[i][c] = PENDING /\ rows[i][c] = DONE
              /\ \E r \in Runs : i + 1 \in PendingAtRead(r) /\ i + 1 \in WrittenRows(r)

C9_Witness ==
  \E r \in Runs :
    /\ extCount = 0 /\ pc[r] = "update" /\ upd[r] = 1 /\ Len(df_mijinhaeng[r]) >= 2
    /\ \E i \in 1..Len(rows) : rows[i] # rows0[i]
    /\ \E i \in 1..Len(rows) : rows0[i][StatusColumn(header)] = DONE

\* C10 (as claimed): every run that made its download directory has carried
\* out the clean-up step by the time it ends.
C10_CleanupAlways ==
  \A r \in Runs :
    (Ended(r) /\ "mkdir" \in steps[r]) => "cleanup" \in steps[r]

\* The update_cell calls run r has made, the one that raised included.
WriteAttempts(r) == upd[r] + (IF outcome[r] = "crash_update" THEN 1 ELSE 0)

\* The links ydl.download has tried for run r, the one that failed included.
DownloadAttempts(r) ==
  IF "download" \in steps[r]
  THEN dl[r] + (IF "download_failed" \in steps[r] THEN 1 ELSE 0)
  ELSE 0

\* The files of the links run r retrieved.
RetrievedFiles(r) == { FileOf(df_mijinhaeng[r][k].link) : k \in 1..dl[r] }

\* C11 (as claimed): when the archive was built and the delivery step
\* failed, the write-back of DONE has still been attempted for every
\* retrieved row by the time the run ends.
C11_CommitDespiteDeliveryFailure ==
  \A r \in Runs :
    (Ended(r) /\ "zip" \in steps[r] /\ outcome[r] = "crash_deliver")
      => WriteAttempts(r) = Len(df_mijinhaeng[r])

\* C12 (as claimed): when an update_cell call failed, the write-back has
\* still been attempted for every row of the snapshot by the time the run
\* ends.
C12_WriteFailureIsolated ==
  \A r \in Runs :
    (Ended(r) /\ outcome[r] = "crash_update")
      => WriteAttempts(r) = Len(df_mijinhaeng[r])

\* C13: when the spreadsheet was opened and the tab typed in does not exist,
\* the run has ended in the not-found outcome and has read no row, retrieved
\* nothing, written nothing and created no directory or archive.
C13_NotFound ==
  \A r \in Runs :
    ("open" \in steps[r] /\ sheet_tab[r] # "" /\ sheet_tab[r] # TabName
       /\ outcome[r] # "conn_error")
      => /\ Ended(r) /\ outcome[r] = "not_found"
         /\ ~HasRead(r)
         /\ sheet0[r] = [header |-> << >>, rows |-> << >>]
         /\ df_mijinhaeng[r] = << >>
         /\ NoEffect(r)
         /\ archive[r] = {}

C13_Witness ==
  \E r \in Runs :
    /\ "open" \in steps[r] /\ sheet_tab[r] = "nosuch" /\ outcome[r] = "not_found"
    /\ \E i \in 1..Len(rows) : PENDING \in Range(rows[i])

\* C14: a run has written a cell only if it built its archive without an
\* error; when building the archive failed, the run has ended, has written
\* nothing, and with nobody else writing the worksheet is as it was read, so
\* every snapshot row is still PENDING.
C14_ArchiveBeforeCommit ==
  \A r \in Runs :
    /\ wlog[r] # {} => ("zip" \in steps[r] /\ "zip_failed" \notin steps[r])
    /\ "zip_failed" \in steps[r] =>
         /\ Ended(r) /\ outcome[r] = "crash_zip"
         /\ wlog[r] = {} /\ upd[r] = 0
         /\ (extCount = 0 /\ wlog[Other(r)] = {})
              => /\ rows = sheet0[r].rows /\ header = sheet0[r].header
                 /\ \A row \in PendingAtRead(r) :
                      rows[row - 1][StatusColumn(header)] = PENDING

C14_Witness ==
  \E r \in Runs :
    /\ "zip_failed" \in steps[r] /\ outcome[r] = "crash_zip"
    /\ Len(df_mijinhaeng[r]) >= 2 /\ dl[r] = Len(df_mijinhaeng[r])
    /\ extCount = 0 /\ wlog[Other(r)] = {}

\* C15 (as claimed): once the retrieval step of a run is over, every link of
\* the snapshot has been tried, whether or not an earlier one failed.
C15_EveryItemAttempted ==
  \A r \in Runs :
    "download" \in steps[r] => DownloadAttempts(r) = Len(df_mijinhaeng[r])

\* C16 (as claimed): the entries of the archive a run built are exactly the
\* files of the links that run retrieved, none from another run.
C16_ArchiveIsRetrieved ==
  \A r \in Runs :
    "zip" \in steps[r] =>
      archive[r] = RetrievedFiles(r)

\* C17 (as claimed): two runs that both took a run identifier took
\* different ones.
C17_RunIdUnique ==
  ("mkdir" \in steps[1] /\ "mkdir" \in steps[2]) => timestamp[1] # timestamp[2]

\* C18: a run that reached the clean-up has ended normally whether or not
\* the clean-up removed everything, and its write-back is complete: every
\* row of the snapshot was written.
C18_CleanupSwallowed ==
  \A r \in Runs :
    "cleanup" \in steps[r] =>
      /\ Ended(r) /\ outcome[r] = "done"
      /\ upd[r] = Len(df_mijinhaeng[r])
      /\ WrittenRows(r) = PendingAtRead(r)

\* A run that ended normally alone and left files in its directory.
C18_Witness ==
  \E r \in Runs :
    /\ "cleanup" \in steps[r] /\ outcome[r] = "done"
    /\ timestamp[r] \in DOMAIN dirs /\ dirs[timestamp[r]] # {}
    /\ pc[Other(r)] = "idle"

\* C19: nothing keeps two runs apart: there are states in which both runs
\* have written DONE to the same row (the witness), and in every such state
\* the row was PENDING at both reads and its link was retrieved by both runs.
C19_DoubleProcessing ==
  (wlog[1] # {} /\ wlog[2] # {}) =>
  \A row \in WrittenRows(1) \cap WrittenRows(2) :
    /\ row \in PendingAtRead(1) \cap PendingAtRead(2)
    /\ row \in RetrievedRows(1) \cap RetrievedRows(2)
    /\ \A r \in Runs : "download_failed" \notin steps[r]

C19_Witness ==
  /\ extCount = 0
  /\ \E row \in WrittenRows(1) \cap WrittenRows(2) :
       /\ row \in PendingAtRead(1) \cap PendingAtRead(2)
       /\ row \in RetrievedRows(1) \cap RetrievedRows(2)
       /\ rows[row - 1][StatusColumn(header)] = DONE
  /\ outcome[1] = "done" /\ outcome[2] = "done"

\* C20: a run writes only after its retrieval call returned without error for
\* the whole snapshot, and it writes in row order: the rows it has written
\* are the first upd rows of the rows that were PENDING at its read, and
\* there are none when the retrieval raised.
C20_CommitGateAndOrder ==
  \A r \in Runs :
    IF wlog[r] = {}
    THEN upd[r] = 0 /\ WrittenRows(r) = {}
    ELSE LET P == PendingAtRead(r)
             W == WrittenRows(r)
         IN /\ W \subseteq P
            /\ \A w \in W : \A q \in P : q < w => q \in W
            /\ Cardinality(W) = upd[r]
            /\ "download" \in steps[r] /\ "download_failed" \notin steps[r]
            /\ dl[r] = Cardinality(P)

C20_Witness ==
  \E r \in Runs :
    /\ pc[r] = "update" /\ upd[r] = 1
    /\ Cardinality(PendingAtRead(r)) = 3
    /\ WrittenRows(r) = {2}

====
